---- MODULE Spec2Model ----
(***************************************************************************)
(* Model of colab/colab_auto_cleanup.py: the ColabAutoCleanup magics       *)
(* class, its post_run_cell callback, and the extension load / unload      *)
(* entry points, together with the part of the IPython host they talk to   *)
(* (the magics registry and the post_run_cell callback list).              *)
(*                                                                         *)
(* Host behaviour assumed (IPython >= 7, the one Colab ships):             *)
(*   - register_magics(cls) instantiates cls and binds the line magics to  *)
(*     that instance;                                                      *)
(*   - events.register appends the callback unless an equal one is already *)
(*     in the list; bound methods are equal iff they belong to the same    *)
(*     instance;                                                           *)
(*   - events.unregister removes the callback, and raises ValueError when  *)
(*     it is not in the list;                                              *)
(*   - post_run_cell calls every callback of (a copy of) the list, in      *)
(*     order, after each cell.                                             *)
(*                                                                         *)
(* Allocator behaviour assumed (CuPy's default memory pool):               *)
(*   - free_all_blocks gives every block not in use back to the device, so *)
(*     total_bytes becomes used_bytes; a call that raises releases nothing;*)
(*   - a freed array's block goes back to the pool and stays held by it;   *)
(*   - gc.collect() frees the arrays that were only reachable from the     *)
(*     objects it collects.                                                *)
(***************************************************************************)
EXTENDS Integers, Sequences, FiniteSets, TLC

VARIABLES
    loaded,     \* the extension is in the host's set of loaded extensions
    magics,     \* instance the line magics are bound to (0: none registered)
    inst,       \* every ColabAutoCleanup instance created so far, by identity
    callbacks,  \* the host's post_run_cell callback list (instance identities)
    pool,       \* the allocator's default memory pool: bytes in use, bytes held
    last        \* what the most recent operation did and printed

vars == <<loaded, magics, inst, callbacks, pool, last>>

----------------------------------------------------------------------------
(* Bounds *)

MaxLoads == 1       \* extension loads in one behaviour
MaxCount == 2       \* cleanups counted by one instance in one behaviour
MaxBytes == 2       \* blocks the memory pool holds at most

----------------------------------------------------------------------------
(* Helpers *)

Range(s) == { s[i] : i \in 1..Len(s) }

\* the literal 'verbose' of auto_cleanup_on, as a sequence of characters
VerboseLit == <<"v", "e", "r", "b", "o", "s", "e">>

\* command lines given to %auto_cleanup_on:
\*   "", "verbose", "VERBOSE", "Verbose", "quiet", "noverbose", "x verbose"
Lines ==
    { <<>>,
      <<"v", "e", "r", "b", "o", "s", "e">>,
      <<"V", "E", "R", "B", "O", "S", "E">>,
      <<"V", "e", "r", "b", "o", "s", "e">>,
      <<"q", "u", "i", "e", "t">>,
      <<"n", "o", "v", "e", "r", "b", "o", "s", "e">>,
      <<"x", " ", "v", "e", "r", "b", "o", "s", "e">> }

\* str.lower() on one character of the alphabet used by Lines
LowerChar(c) ==
    CASE c = "V" -> "v"
      [] c = "E" -> "e"
      [] c = "R" -> "r"
      [] c = "B" -> "b"
      [] c = "O" -> "o"
      [] c = "S" -> "s"
      [] OTHER -> c

\* line.lower()
Lower(line) == [i \in 1..Len(line) |-> LowerChar(line[i])]

\* Python's  sub in s  on strings: sub occurs in s as a contiguous substring
Contains(s, sub) ==
    \E i \in 1..(Len(s) - Len(sub) + 1) : SubSeq(s, i, i + Len(sub) - 1) = sub

\* the outcome object handed to post_run_cell callbacks (truthiness of its
\* two error fields)
Results == [error_before_exec : BOOLEAN, error_in_exec : BOOLEAN]

\* behaviour of the environment during one cleanup: the allocator library
\* (absent, or the first call of it that raises) and what gc.collect returns
CupyModes == {"absent", "ok", "used_bytes_raises", "free_raises", "pinned_raises"}
Envs == [cupy : CupyModes, collected : 0..1]

----------------------------------------------------------------------------
(* cleanup_gpu_memory_inline *)

\* the allocator calls with the pinned pool released before the memory pool
AllocCalls_PinnedFirst ==
    <<"used_bytes", "total_bytes", "pinned_free_all_blocks",
      "free_all_blocks", "total_bytes">>

\* the allocator calls of the try block, in program order
AllocCalls ==
    <<"used_bytes", "total_bytes", "free_all_blocks",
      "pinned_free_all_blocks", "total_bytes">>

\* index in AllocCalls of the call that raises (0: none does)
FailAt(env) ==
    CASE env.cupy = "used_bytes_raises" -> 1
      [] env.cupy = "free_raises" -> 3
      [] env.cupy = "pinned_raises" -> 4
      [] OTHER -> 0

\* the try block: the calls made, and the exception that ends it
TryBlock(verbose, env) ==
    IF env.cupy = "absent"
    THEN [steps |-> <<"import_cupy">>, exc |-> "ImportError"]
    ELSE IF FailAt(env) > 0
    THEN [steps |-> <<"import_cupy">> \o SubSeq(AllocCalls, 1, FailAt(env)),
          exc |-> "Exception"]
    ELSE [steps |-> <<"import_cupy">> \o AllocCalls
                      \o (IF verbose THEN <<"print_freed">> ELSE <<>>),
          exc |-> "none"]

\* the except clauses of cleanup_gpu_memory_inline: the exceptions they catch
InlineCatches_NoExcept == {"ImportError"}
InlineCatches == {"ImportError", "Exception"}

\* the whole function: the steps taken, and the exception that leaves it
\* ("none": it returns freed_info)
cleanup_gpu_memory_inline(verbose, env) ==
    LET t == TryBlock(verbose, env)
        handler == IF t.exc = "ImportError" /\ verbose THEN <<"print_no_cupy">>
                   ELSE IF t.exc = "Exception" /\ verbose THEN <<"print_error">>
                   ELSE <<>>
        tail == <<"gc_collect">>
                \o (IF verbose /\ env.collected > 0
                    THEN <<"print_collected">> ELSE <<>>)
    IN  IF t.exc = "none"
        THEN [steps |-> t.steps \o tail, exc |-> "none"]
        ELSE IF t.exc \in InlineCatches
        THEN [steps |-> t.steps \o handler \o tail, exc |-> "none"]
        ELSE [steps |-> t.steps, exc |-> t.exc]

----------------------------------------------------------------------------
(* The default memory pool, as cleanup_gpu_memory_inline uses it.  Sizes are  *)
(* counted in blocks.  used_bytes is the memory of live and of not yet        *)
(* collected arrays, total_bytes what the pool holds from the device.         *)

EmptyPool == [used |-> 0, total |-> 0]

\* a release that gives back a single free block
free_all_blocks_OneBlock(p) ==
    [p EXCEPT !.total = IF p.total > p.used THEN p.total - 1 ELSE p.total]

\* mempool.free_all_blocks(): every block not in use goes back to the device
free_all_blocks(p) == [p EXCEPT !.total = p.used]

\* the pool after mempool.free_all_blocks() of an invocation with these steps:
\* the call returned iff the pinned pool release after it was attempted
PoolReleased(p, steps) ==
    IF "pinned_free_all_blocks" \in Range(steps) THEN free_all_blocks(p) ELSE p

\* freed_bytes = total_before - total_after, computed when the try block
\* reaches its second total_bytes (<<>>: not computed)
FreedBytes(p, steps) ==
    IF Len(SelectSeq(steps, LAMBDA x : x = "total_bytes")) = 2
    THEN <<p.total - PoolReleased(p, steps).total>>
    ELSE <<>>

\* what gc.collect() can give back to the pool: memory of arrays that were
\* only reachable from collected objects
GcFreeable(p, env) == IF env.collected > 0 THEN 0..p.used ELSE {0}

\* the pool after gc.collect() of an invocation with these steps returned g
\* blocks to it
PoolCollected(p, steps, g) ==
    IF "gc_collect" \in Range(steps) THEN [p EXCEPT !.used = @ - g] ELSE p

\* the pool and the freed_bytes figures after the invocations calls, the first
\* collector run among them returning g blocks to the pool
RECURSIVE PoolFold(_, _, _, _)
PoolFold(calls, p, g, figures) ==
    IF calls = <<>>
    THEN [pool |-> p, figures |-> figures]
    ELSE LET steps == Head(calls).steps
             ran == "gc_collect" \in Range(steps)
         IN  PoolFold(Tail(calls),
                      PoolCollected(PoolReleased(p, steps), steps, g),
                      IF ran THEN 0 ELSE g,
                      Append(figures, FreedBytes(p, steps)))

----------------------------------------------------------------------------
(* ColabAutoCleanup *)

\* __init__
NewInstance == [enabled |-> FALSE, verbose |-> FALSE, cleanup_count |-> 0]

\* the except clause of _cleanup_callback: the exceptions it catches
CallbackCatches == {"ImportError", "Exception"}

\* _cleanup_callback without the enabled check
cleanup_callback_NoEnabledCheck(self, result, env) ==
    IF result.error_before_exec \/ result.error_in_exec
    THEN [self |-> self,
          steps |-> IF self.verbose THEN <<"print_skipped">> ELSE <<>>,
          raised |-> FALSE]
    ELSE LET c == cleanup_gpu_memory_inline(self.verbose, env)
         IN  IF c.exc = "none"
             THEN [self |-> [self EXCEPT !.cleanup_count = @ + 1],
                   steps |-> c.steps, raised |-> FALSE]
             ELSE [self |-> self,
                   steps |-> c.steps \o <<"print_cleanup_error">>,
                   raised |-> c.exc \notin CallbackCatches]

\* _cleanup_callback without the skip on a cell execution error
cleanup_callback_NoErrorSkip(self, result, env) ==
    IF ~self.enabled
    THEN [self |-> self, steps |-> <<>>, raised |-> FALSE]
    ELSE LET c == cleanup_gpu_memory_inline(self.verbose, env)
         IN  IF c.exc = "none"
             THEN [self |-> [self EXCEPT !.cleanup_count = @ + 1],
                   steps |-> c.steps, raised |-> FALSE]
             ELSE [self |-> self,
                   steps |-> c.steps \o <<"print_cleanup_error">>,
                   raised |-> c.exc \notin CallbackCatches]

\* _cleanup_callback on the instance state self: the new instance state, the
\* steps taken, and whether an exception leaves the callback
cleanup_callback(self, result, env) ==
    IF ~self.enabled
    THEN [self |-> self, steps |-> <<>>, raised |-> FALSE]
    ELSE IF result.error_before_exec \/ result.error_in_exec
    THEN [self |-> self,
          steps |-> IF self.verbose THEN <<"print_skipped">> ELSE <<>>,
          raised |-> FALSE]
    ELSE LET c == cleanup_gpu_memory_inline(self.verbose, env)
         IN  IF c.exc = "none"
             THEN [self |-> [self EXCEPT !.cleanup_count = @ + 1],
                   steps |-> c.steps, raised |-> FALSE]
             ELSE IF c.exc \in CallbackCatches
             THEN [self |-> self,
                   steps |-> c.steps \o <<"print_cleanup_error">>,
                   raised |-> FALSE]
             ELSE [self |-> self, steps |-> c.steps, raised |-> TRUE]

----------------------------------------------------------------------------
(* Host event system, as used through ip.events *)

\* events.register('post_run_cell', f)
Register(cbs, f) == IF f \in Range(cbs) THEN cbs ELSE Append(cbs, f)

\* events.unregister('post_run_cell', f): the new list, and whether
\* ValueError is raised
Unregister(cbs, f) ==
    IF f \in Range(cbs)
    THEN LET k == CHOOSE i \in 1..Len(cbs) :
                      cbs[i] = f /\ \A j \in 1..(i - 1) : cbs[j] # f
         IN  [callbacks |-> SubSeq(cbs, 1, k - 1) \o SubSeq(cbs, k + 1, Len(cbs)),
              raised |-> FALSE]
    ELSE [callbacks |-> cbs, raised |-> TRUE]

\* one record of last.calls: a callback invocation
CallRec(id, before, r) ==
    [id |-> id, enabled |-> before.enabled, steps |-> r.steps,
     raised |-> r.raised,
     counted |-> r.self.cleanup_count - before.cleanup_count,
     flagsKept |-> /\ r.self.enabled = before.enabled
                   /\ r.self.verbose = before.verbose]

\* events.trigger('post_run_cell', result): call the callbacks of cbs in order
RECURSIVE Trigger(_, _, _, _, _)
Trigger(cbs, instances, result, env, calls) ==
    IF cbs = <<>>
    THEN [inst |-> instances, calls |-> calls]
    ELSE LET id == Head(cbs)
             r == cleanup_callback(instances[id], result, env)
         IN  Trigger(Tail(cbs), [instances EXCEPT ![id] = r.self], result, env,
                     Append(calls, CallRec(id, instances[id], r)))

\* the outcome has neither error field set
Clean(result) == ~result.error_before_exec /\ ~result.error_in_exec

\* last: the operation, whether an exception left it, what status / off
\* printed, whether the cell outcome was clean, the callback invocations made
\* figures: the freed_bytes figure of each invocation; gcFreed: the blocks the
\* collector returned to the pool; cupy: the allocator behaviour the cleanups
\* met ("none": no cleanup was performed); changed: the parts of the state the
\* operation changed; deltas: the change of each instance's cleanup_count
NoReport == [op |-> "none", raised |-> FALSE, status |-> <<>>,
             offCount |-> <<>>, clean |-> FALSE, calls |-> <<>>,
             figures |-> <<>>, gcFreed |-> 0, cupy |-> "none",
             changed |-> {}, deltas |-> <<>>, prev |-> "other"]

\* the report l is that of a cell completion whose cleanup passes all computed
\* a freed_bytes figure (so each released the pool)
CompletedPass(l) ==
    /\ l.op = "cell" /\ l.clean
    /\ l.figures # <<>>
    /\ \A k \in 1..Len(l.figures) : l.figures[k] # <<>>

\* what a cell completion follows: a completed pass whose collector run gave
\* nothing back to the pool ("pass"), one whose collector run did
\* ("pass_collected"), or anything else
Follows(l) ==
    IF CompletedPass(l)
    THEN (IF l.gcFreed = 0 THEN "pass" ELSE "pass_collected")
    ELSE "other"

\* the parts of the state a step changes
Changed ==
    {n \in {"loaded"} : loaded' # loaded}
    \cup {n \in {"magics"} : magics' # magics}
    \cup {n \in {"callbacks"} : callbacks' # callbacks}
    \cup {n \in {"pool"} : pool' # pool}
    \cup {n \in {"flags"} :
             \E i \in 1..Len(inst) : \/ inst'[i].enabled # inst[i].enabled
                                     \/ inst'[i].verbose # inst[i].verbose}

\* the change a step makes to the cleanup_count of each instance
Deltas ==
    [i \in 1..Len(inst) |-> inst'[i].cleanup_count - inst[i].cleanup_count]

\* the allocator behaviour met by the invocations calls
CupyMet(calls, env) ==
    IF \E k \in 1..Len(calls) : "import_cupy" \in Range(calls[k].steps)
    THEN env.cupy ELSE "none"

----------------------------------------------------------------------------
(* Initial state: the module is imported, the extension not yet loaded *)

Init ==
    /\ loaded = FALSE
    /\ magics = 0
    /\ inst = <<>>
    /\ callbacks = <<>>
    /\ pool = EmptyPool
    /\ last = NoReport

----------------------------------------------------------------------------
(* Operations *)

\* load_ipython_extension: register_magics instantiates the class for the line
\* magics; a second instance is created, enabled, and its callback subscribed
load_ipython_extension ==
    /\ ~loaded
    /\ Len(inst) + 2 <= 2 * MaxLoads
    /\ LET reg == Len(inst) + 1
           ld == Len(inst) + 2
       IN  /\ inst' = inst \o <<NewInstance,
                                [NewInstance EXCEPT !.enabled = TRUE,
                                                    !.verbose = FALSE]>>
           /\ magics' = reg
           /\ callbacks' = Register(callbacks, ld)
    /\ loaded' = TRUE
    /\ UNCHANGED pool
    /\ last' = [NoReport EXCEPT !.op = "load",
                                !.changed = Changed, !.deltas = Deltas]

\* unload_ipython_extension: a fresh instance is created and the unregistration
\* of its callback attempted; whatever is raised is swallowed. The fresh
\* instance is dropped when the function returns.
unload_ipython_extension ==
    /\ loaded
    /\ LET tmp == Len(inst) + 1
           u == Unregister(callbacks, tmp)
       IN  callbacks' = u.callbacks
    /\ loaded' = FALSE
    /\ UNCHANGED <<magics, inst, pool>>
    /\ last' = [NoReport EXCEPT !.op = "unload",
                                !.changed = Changed, !.deltas = Deltas]

\* %auto_cleanup_on that also restarts the count
auto_cleanup_on_ResetsCount(line) ==
    /\ magics # 0
    /\ inst' = [inst EXCEPT ![magics] =
                   [@ EXCEPT !.verbose = Contains(Lower(line), VerboseLit),
                             !.enabled = TRUE,
                             !.cleanup_count = 0]]
    /\ callbacks' = Register(callbacks, magics)
    /\ UNCHANGED <<loaded, magics, pool>>
    /\ last' = [NoReport EXCEPT !.op = "on",
                                !.changed = Changed, !.deltas = Deltas]

\* %auto_cleanup_on line
auto_cleanup_on(line) ==
    /\ magics # 0
    /\ inst' = [inst EXCEPT ![magics] =
                   [@ EXCEPT !.verbose = Contains(Lower(line), VerboseLit),
                             !.enabled = TRUE]]
    /\ callbacks' = Register(callbacks, magics)
    /\ UNCHANGED <<loaded, magics, pool>>
    /\ last' = [NoReport EXCEPT !.op = "on",
                                !.changed = Changed, !.deltas = Deltas]

\* %auto_cleanup_off: ValueError from unregister leaves the magic before the
\* count is printed
auto_cleanup_off ==
    /\ magics # 0
    /\ inst' = [inst EXCEPT ![magics].enabled = FALSE]
    /\ UNCHANGED <<loaded, magics, pool>>
    /\ LET u == Unregister(callbacks, magics)
       IN  /\ callbacks' = u.callbacks
           /\ last' = [NoReport EXCEPT
                          !.op = "off",
                          !.raised = u.raised,
                          !.offCount = IF u.raised THEN <<>>
                                       ELSE <<inst[magics].cleanup_count>>,
                          !.changed = Changed, !.deltas = Deltas]

\* %auto_cleanup_status that also restarts the count it has printed
auto_cleanup_status_ResetsCount ==
    /\ magics # 0
    /\ inst' = [inst EXCEPT ![magics].cleanup_count = 0]
    /\ UNCHANGED <<loaded, magics, callbacks, pool>>
    /\ last' = [NoReport EXCEPT !.op = "status", !.status = <<inst[magics]>>,
                                !.changed = Changed, !.deltas = Deltas]

\* %auto_cleanup_status
auto_cleanup_status ==
    /\ magics # 0
    /\ UNCHANGED <<loaded, magics, inst, callbacks, pool>>
    /\ last' = [NoReport EXCEPT !.op = "status", !.status = <<inst[magics]>>,
                                !.changed = Changed, !.deltas = Deltas]

\* a cell finishes: the host triggers post_run_cell with its outcome
post_run_cell(result, env) ==
    /\ \A i \in Range(callbacks) : inst[i].cleanup_count < MaxCount
    /\ UNCHANGED <<loaded, magics, callbacks>>
    /\ \E g \in GcFreeable(pool, env),
          t \in {Trigger(callbacks, inst, result, env, <<>>)} :
          \E f \in {PoolFold(t.calls, pool, g, <<>>)} :
              /\ inst' = t.inst
              /\ pool' = f.pool
              /\ last' = [NoReport EXCEPT
                             !.op = "cell",
                             !.prev = Follows(last),
                             !.clean = Clean(result),
                             !.raised = \E k \in 1..Len(t.calls) : t.calls[k].raised,
                             !.calls = t.calls,
                             !.figures = f.figures,
                             !.gcFreed = pool.used - f.pool.used,
                             !.cupy = CupyMet(t.calls, env),
                             !.changed = Changed, !.deltas = Deltas]

\* _cleanup_callback called on the magics instance with a simulated outcome,
\* not through the host's event
simulate_outcome(result, env) ==
    /\ magics # 0
    /\ inst[magics].cleanup_count < MaxCount
    /\ UNCHANGED <<loaded, magics, callbacks>>
    /\ \E g \in GcFreeable(pool, env),
          r \in {cleanup_callback(inst[magics], result, env)} :
          \E calls \in {<<CallRec(magics, inst[magics], r)>>} :
          \E f \in {PoolFold(calls, pool, g, <<>>)} :
              /\ inst' = [inst EXCEPT ![magics] = r.self]
              /\ pool' = f.pool
              /\ last' = [NoReport EXCEPT
                             !.op = "direct",
                             !.clean = Clean(result),
                             !.raised = r.raised,
                             !.calls = calls,
                             !.figures = f.figures,
                             !.gcFreed = pool.used - f.pool.used,
                             !.cupy = CupyMet(calls, env),
                             !.changed = Changed, !.deltas = Deltas]

Next ==
    \/ load_ipython_extension
    \/ unload_ipython_extension
    \/ \E line \in Lines : auto_cleanup_on(line)
    \/ auto_cleanup_off
    \/ auto_cleanup_status
    \/ \E result \in Results, env \in Envs : post_run_cell(result, env)
    \/ \E result \in Results, env \in Envs : simulate_outcome(result, env)

Spec == Init /\ [][Next]_vars

----------------------------------------------------------------------------
(* Cells that use the allocator, after a plain extension load *)

\* the state load_ipython_extension leaves when it is the first operation
InitPool ==
    /\ loaded = TRUE
    /\ magics = 1
    /\ inst = <<NewInstance,
                [NewInstance EXCEPT !.enabled = TRUE, !.verbose = FALSE]>>
    /\ callbacks = <<2>>
    /\ pool = EmptyPool
    /\ last = [NoReport EXCEPT !.op = "load"]

\* the code of a cell allocates a device array of one block: a free block of
\* the pool is reused, else the pool takes one from the device
cell_allocates ==
    /\ pool.used < MaxBytes
    /\ pool' = [used |-> pool.used + 1,
                total |-> IF pool.used < pool.total THEN pool.total
                          ELSE pool.total + 1]
    /\ UNCHANGED <<loaded, magics, inst, callbacks>>
    /\ last' = [NoReport EXCEPT !.op = "allocate",
                                !.changed = Changed, !.deltas = Deltas]

\* the code of a cell drops its last reference to a device array: the block
\* goes back to the pool and stays held by it
cell_drops ==
    /\ pool.used > 0
    /\ pool' = [pool EXCEPT !.used = @ - 1]
    /\ UNCHANGED <<loaded, magics, inst, callbacks>>
    /\ last' = [NoReport EXCEPT !.op = "drop",
                                !.changed = Changed, !.deltas = Deltas]

NextPool ==
    \/ cell_allocates
    \/ cell_drops
    \/ \E result \in Results, env \in Envs : post_run_cell(result, env)

SpecPool == InitPool /\ [][NextPool]_vars

----------------------------------------------------------------------------
(* Vocabulary of the properties *)

\* the invocations recorded by the last operation, when it delivered an outcome
IsOutcome == last.op \in {"cell", "direct"}
Calls == { last.calls[k] : k \in 1..Len(last.calls) }

\* steps that touch the allocator library or run the garbage collector
AllocatorSteps == {"import_cupy"} \cup Range(AllocCalls)
CleanupSteps == AllocatorSteps \cup {"gc_collect"}

\* the invocation reached free_all_blocks on the memory pool and went no further
FreeAllBlocksRaised(c) ==
    /\ "free_all_blocks" \in Range(c.steps)
    /\ "pinned_free_all_blocks" \notin Range(c.steps)

\* the line carries the token verbose, in any letter case: a maximal run of
\* non-blank characters that reads verbose once lower-cased
HasVerboseToken(line) ==
    \E i \in 1..Len(line) :
        LET j == i + Len(VerboseLit) - 1
        IN  /\ j <= Len(line)
            /\ Lower(SubSeq(line, i, j)) = VerboseLit
            /\ (i = 1 \/ line[i - 1] = " ")
            /\ (j = Len(line) \/ line[j + 1] = " ")

----------------------------------------------------------------------------
(* Properties *)

\* C1: the number of cleanup callbacks subscribed to post_run_cell is always
\* 0 or 1, whatever the sequence of load, enable and disable.
C1_AtMostOneSubscription == Len(callbacks) <= 1

\* C2: after an enable followed by a (completed) disable, a following cell
\* that finishes cleanly invokes no cleanup callback, no allocator release or
\* garbage collection is performed, and cleanup_count stays as it was.
C2_NoCleanupAfterDisable ==
    [][\A result \in Results, env \in Envs :
          (/\ last.op = "off" /\ ~last.raised
           /\ Clean(result)
           /\ post_run_cell(result, env))
          => (/\ last'.calls = <<>>
              /\ inst'[magics].cleanup_count = inst[magics].cleanup_count)]_vars

\* C3: every callback invocation with a clean outcome on an enabled instance
\* raises its cleanup_count by exactly 1, whatever the allocator does; and a
\* clean cell while the hook is enabled through the magics invokes that
\* instance's callback exactly once, so n clean cells raise the count that
\* status() reports by n.
C3_CleanEnabledCountsOne ==
    /\ (IsOutcome /\ last.clean)
          => \A c \in Calls : c.enabled => c.counted = 1
    /\ (last.op = "cell" /\ last.clean /\ magics # 0 /\ inst[magics].enabled)
          => Cardinality({k \in 1..Len(last.calls) : last.calls[k].id = magics}) = 1

C3_Witness ==
    /\ last.op = "cell" /\ last.clean
    /\ magics # 0 /\ inst[magics].enabled /\ ~inst[magics].verbose
    /\ inst[magics].cleanup_count = 2
    /\ \E c \in Calls : c.id = magics /\ c.steps = <<"import_cupy", "gc_collect">>

\* C4: no callback invocation lets an exception out, whatever the enabled flag,
\* the outcome and the allocator's behaviour; and an invocation in which
\* free_all_blocks raised still counts the cleanup.
C4_HookNeverRaises ==
    IsOutcome =>
        /\ ~last.raised
        /\ \A c \in Calls :
              /\ ~c.raised
              /\ FreeAllBlocksRaised(c) => c.counted = 1

C4_Witness ==
    /\ last.op = "cell"
    /\ \E c \in Calls : FreeAllBlocksRaised(c) /\ c.counted = 1 /\ ~c.raised

\* C5: a callback invocation with an errored outcome never raises
\* cleanup_count and never touches the allocator or the collector, whatever
\* the enabled and verbose flags.
C5_ErroredOutcomeSkips ==
    (IsOutcome /\ ~last.clean)
        => \A c \in Calls :
              /\ c.counted = 0
              /\ Range(c.steps) \cap CleanupSteps = {}

C5_Witness ==
    /\ last.op = "cell" /\ ~last.clean
    /\ magics # 0 /\ inst[magics].enabled /\ inst[magics].verbose
    /\ inst[magics].cleanup_count = 0
    /\ \E c \in Calls : c.id = magics /\ c.steps = <<"print_skipped">>

\* C6: a callback invocation on a disabled instance does nothing: the count
\* and the flags are unchanged and no step is taken, whatever the outcome.
C6_DisabledIsNoOp ==
    IsOutcome =>
        \A c \in Calls :
            ~c.enabled => (c.counted = 0 /\ c.flagsKept /\ c.steps = <<>>)

C6_Witness ==
    /\ last.op = "direct" /\ last.clean
    /\ \E c \in Calls : ~c.enabled /\ c.id = magics
    /\ ~inst[magics].enabled /\ inst[magics].verbose
    /\ inst[magics].cleanup_count = 1

\* C7: right after extension load the state status() reads is enabled=true,
\* verbose=false, cleanup_count=0, and it is the state of the one subscribed
\* callback.
C7_StatusAfterLoad ==
    last.op = "load" =>
        /\ inst[magics] = [enabled |-> TRUE, verbose |-> FALSE, cleanup_count |-> 0]
        /\ Range(callbacks) = {magics}

\* C8: after unload no cleanup callback is subscribed to post_run_cell, and no
\* later cell completion performs a cleanup.
C8_UnloadUnsubscribes ==
    /\ ~loaded => Len(callbacks) = 0
    /\ (~loaded /\ last.op = "cell")
          => \A c \in Calls : Range(c.steps) \cap CleanupSteps = {}

\* C9: disable completes in every state: it raises nothing, leaves enabled
\* false and the callback unsubscribed, and reports the cleanup_count.
C9_DisableCompletes ==
    last.op = "off" =>
        /\ ~last.raised
        /\ ~inst[magics].enabled
        /\ magics \notin Range(callbacks)
        /\ last.offCount = <<inst[magics].cleanup_count>>

\* C10: enable sets enabled, sets verbose to true exactly when the line carries
\* the verbose token (in any letter case), and leaves cleanup_count unchanged.
C10_EnableSetsVerboseFromToken ==
    [][\A line \in Lines :
          auto_cleanup_on(line)
          => (/\ inst'[magics].enabled
              /\ inst'[magics].verbose = HasVerboseToken(line)
              /\ inst'[magics].cleanup_count = inst[magics].cleanup_count)]_vars

\* C11: status() is read-only: it changes no part of the state (flags, counts,
\* magics binding, the host's callback list), and its report shows the
\* current enabled, verbose and cleanup_count.
C11_StatusReadOnly ==
    last.op = "status" =>
        /\ last.changed = {}
        /\ \A i \in 1..Len(last.deltas) : last.deltas[i] = 0
        /\ last.status = <<inst[magics]>>

C11_Witness ==
    /\ last.op = "status"
    /\ last.status = <<[enabled |-> TRUE, verbose |-> TRUE, cleanup_count |-> 2]>>
    /\ inst[magics] = last.status[1]
    /\ Len(callbacks) = 2

\* position of the first occurrence of step x in steps (0: it does not occur)
Pos(steps, x) ==
    IF x \in Range(steps)
    THEN CHOOSE i \in 1..Len(steps) :
             steps[i] = x /\ \A j \in 1..(i - 1) : steps[j] # x
    ELSE 0

\* the steps that occur among free_all_blocks, pinned_free_all_blocks and
\* gc_collect occur in that order
ReleaseOrder(steps) ==
    /\ (Pos(steps, "pinned_free_all_blocks") > 0)
          => (/\ Pos(steps, "free_all_blocks") > 0
              /\ Pos(steps, "free_all_blocks") < Pos(steps, "pinned_free_all_blocks"))
    /\ \A x \in {"free_all_blocks", "pinned_free_all_blocks"} :
          (Pos(steps, x) > 0 /\ Pos(steps, "gc_collect") > 0)
              => Pos(steps, x) < Pos(steps, "gc_collect")

\* the cleanups performed by the last operation: invocations on an enabled
\* instance with a clean outcome
Cleanups == IF IsOutcome /\ last.clean THEN { c \in Calls : c.enabled } ELSE {}

\* C13 as stated: in every cleanup the memory pool is released, then the pinned
\* pool, then the collector runs; both releases are attempted whenever the
\* allocator library could be imported, and the collector always runs.
C13_BothReleasesThenGc ==
    \A c \in Cleanups :
        /\ "gc_collect" \in Range(c.steps)
        /\ ReleaseOrder(c.steps)
        /\ "used_bytes" \in Range(c.steps)
              => (/\ "free_all_blocks" \in Range(c.steps)
                  /\ "pinned_free_all_blocks" \in Range(c.steps))

\* C13 amended: in every cleanup the releases made and the collector run occur
\* in the order memory pool, pinned pool, collector; the collector always
\* runs; the memory pool release is attempted exactly when the library is
\* present and the byte queries before it return, the pinned pool release
\* exactly when the memory pool release returned as well.
C13_ReleasesUntilFailureThenGc ==
    \A c \in Cleanups :
        /\ "gc_collect" \in Range(c.steps)
        /\ ReleaseOrder(c.steps)
        /\ ("free_all_blocks" \in Range(c.steps))
              <=> (last.cupy \in {"ok", "free_raises", "pinned_raises"})
        /\ ("pinned_free_all_blocks" \in Range(c.steps))
              <=> (last.cupy \in {"ok", "pinned_raises"})

C13_Witness ==
    /\ last.op = "cell" /\ last.clean
    /\ \E c \in Cleanups :
          c.steps = <<"import_cupy", "used_bytes", "total_bytes",
                      "free_all_blocks", "print_error", "gc_collect">>

\* the invocations of the last operation that performed a cleanup pass
\* (allocator release attempted as far as it goes, collector run)
Passes == { k \in 1..Len(last.calls) : "gc_collect" \in Range(last.calls[k].steps) }

\* C14: the cleanup_count that status() and disable() report equals the number
\* of cleanup passes performed since load. The count starts at 0 and no
\* command changes it, so this is: every cleanup pass performed is counted,
\* once, by the instance the magics read, and one cell completion (one
\* outcome) causes at most one pass.
C14_ReportedCountIsPasses ==
    IsOutcome =>
        /\ Cardinality(Passes) <= 1
        /\ \A k \in Passes :
              last.calls[k].id = magics /\ last.calls[k].counted = 1

\* C15: cleanup_count of an instance is never negative and never decreases;
\* enable, disable and status leave it unchanged; one outcome delivered to an
\* instance changes it by 0 or by exactly 1.
C15_CountMonotone ==
    /\ \A i \in 1..Len(inst) : inst[i].cleanup_count >= 0
    /\ \A i \in 1..Len(last.deltas) : last.deltas[i] \in {0, 1}
    /\ IsOutcome => \A c \in Calls : c.counted \in {0, 1}
    /\ (last.op \in {"on", "off", "status"})
          => \A i \in 1..Len(last.deltas) : last.deltas[i] = 0

C15_Witness ==
    /\ last.op = "on"
    /\ magics # 0 /\ inst[magics].cleanup_count = 2
    /\ \E i \in 1..Len(inst) : i # magics /\ inst[i].cleanup_count = 1

====
